---- MODULE Spec2Model ----
(***************************************************************************)
(* Model of src/app.py: the Flask service that stores organisation API     *)
(* keys and drives the Zoho OAuth2 authorization-code flow per             *)
(* (cliq_org_id, cliq_user_id).                                            *)
(*                                                                         *)
(* Strings are sequences of symbols (one-character strings, or a literal   *)
(* of the source kept as one symbol).  A missing request parameter (None)  *)
(* and an empty string are both falsy in every test the code makes on      *)
(* them, and both are the empty sequence here.                             *)
(*                                                                         *)
(* The service runs under app.run (src/app.py:324), which serves each      *)
(* request on its own thread: the handlers are modelled as sequences of    *)
(* steps, one step per access to the shared dictionaries, taken by the     *)
(* threads of Threads in any interleaving.                                 *)
(***************************************************************************)
EXTENDS Integers, Sequences, FiniteSets, TLC

VARIABLES
    USER_TOKEN_DATABASE, \* org id -> (user id -> reference to a token dict)
    heap,                \* the token dicts, by reference (index)
    ORG_KEY_STORE,       \* org id -> api key
    now,                 \* the clock, in seconds
    ticks,               \* how many times the clock has advanced
    uuidCount,           \* how many uuid4() values have been drawn
    pc,                  \* thread -> where it is in its handler
    req,                 \* thread -> the request it is serving
    loc,                 \* thread -> the handler's local variables
    last,                \* history: the last response sent
    issued,              \* history: the states start_oauth_flow has returned
    stored               \* history: the keys oauth_callback has stored under

vars == <<USER_TOKEN_DATABASE, heap, ORG_KEY_STORE, now, ticks, uuidCount,
          pc, req, loc, last, issued, stored>>

(***************************************************************************)
(* Bounds of the model.                                                    *)
(***************************************************************************)
MaxUuid == 4
MaxTicks == 1

\* The request threads.
Threads == {1, 2}

(***************************************************************************)
(* Program constants.                                                      *)
(***************************************************************************)
EXPIRES_IN == 3600
EXPIRY_MARGIN == 300
REFRESH_BUFFER == 60
MIN_KEY_LEN == 15

Empty == <<>>

(***************************************************************************)
(* The inputs of the requests.                                             *)
(***************************************************************************)
\* The tenants and users that start an authorization; one user id holds the
\* delimiter of the state parameter.
OrgIds == { <<"o">> }
UserIds == { <<"v">>, <<"u", "_", "v">> }
\* The tenants whose keys are stored and whose data are asked for.
QueryOrgIds == OrgIds \cup { <<"o", "_", "u">> }
AUTH_CODE_PREFIX == <<"cliq_auth_code_">>
AuthCodes == { AUTH_CODE_PREFIX \o <<"v">>, <<"x">>, Empty }
ShortKey == [i \in 1..(MIN_KEY_LEN - 1) |-> "k"]
LongKey == [i \in 1..MIN_KEY_LEN |-> "k"]
LongerKey == [i \in 1..(MIN_KEY_LEN + 1) |-> "k"]
ApiKeys == { ShortKey, LongKey, LongerKey, Empty }
\* How far the clock may advance in one step: to the last second before a
\* token issued now enters the refresh buffer, or to the first second in it.
TickSteps == { EXPIRES_IN - EXPIRY_MARGIN - REFRESH_BUFFER - 1,
               EXPIRES_IN - EXPIRY_MARGIN - REFRESH_BUFFER }

(***************************************************************************)
(* String helpers.                                                         *)
(***************************************************************************)
\* str.startswith
StartsWith(s, prefix) ==
    /\ Len(s) >= Len(prefix)
    /\ SubSeq(s, 1, Len(prefix)) = prefix

\* The positions of sep in s.
Occurrences(s, sep) == { i \in 1..Len(s) : s[i] = sep }

Max(S) == CHOOSE x \in S : \A y \in S : y <= x

\* str.rsplit(sep, maxsplit): split at the last maxsplit occurrences of sep.
RECURSIVE RSplit(_, _, _)
RSplit(s, sep, maxsplit) ==
    IF maxsplit = 0 \/ Occurrences(s, sep) = {}
    THEN <<s>>
    ELSE LET i == Max(Occurrences(s, sep))
         IN  RSplit(SubSeq(s, 1, i - 1), sep, maxsplit - 1)
                 \o <<SubSeq(s, i + 1, Len(s))>>

\* uuid.uuid4().hex of the n-th draw: a string of hex digits, here one symbol
\* that is fresh for each draw and is never the delimiter.
HexDigits == <<"0", "1", "2", "3", "4", "5", "6", "7", "8", "9">>
Uuid4Hex(n) == <<HexDigits[n + 1]>>

\* datetime.isoformat and datetime.fromisoformat: the stored expires_at is a
\* string; fromisoformat raises on anything isoformat did not produce.
IsoFormat(t) == <<"iso", t>>
IsIsoFormat(s) == Len(s) = 2 /\ s[1] = "iso"
FromIsoFormat(s) == s[2]

(***************************************************************************)
(* Values of the handlers' variables.                                      *)
(***************************************************************************)
\* None, where the code expects a token dict.
NoTokens ==
    [ok |-> FALSE, access_token |-> Empty, refresh_token |-> Empty,
     expires_at |-> Empty]

NoRequest == [op |-> "none", a |-> Empty, b |-> Empty]

\* org, user: the key the handler works on; user_data: the reference it
\* holds; tokens: what the provider call returned; valid_access_token: the
\* result of get_valid_access_token; refreshes: how many refresh calls the
\* request has made to the provider.
NoLocals ==
    [org |-> Empty, user |-> Empty, user_data |-> 0, tokens |-> NoTokens,
     valid_access_token |-> Empty, refreshes |-> 0]

\* A response: its status code and (the first sentence of) its message.  With
\* it are kept, of the request it answers: token, the access token that
\* get_valid_access_token returned (the payload shows its first characters);
\* state, the state parameter of a callback request that got as far as the
\* code exchange; refreshes, how many refresh calls to the provider it made.
NoResponse ==
    [status |-> 0, msg |-> "", token |-> Empty, state |-> Empty,
     refreshes |-> 0]

Response(status, msg) == [NoResponse EXCEPT !.status = status, !.msg = msg]

\* d[k] = v on a dict d.
DictSet(d, k, v) == [x \in DOMAIN d \cup {k} |-> IF x = k THEN v ELSE d[x]]

EmptyDict == [x \in {} |-> 0]

(***************************************************************************)
(* Helper functions of the source.                                         *)
(***************************************************************************)
\* A variant of mock_key_validation that asks for one character more.
mock_key_validation_strict(api_key) == Len(api_key) > MIN_KEY_LEN

mock_key_validation(api_key) == Len(api_key) >= MIN_KEY_LEN

\* A variant of exchange_code_for_tokens that accepts every code.
exchange_any_code(auth_code, n, t) ==
    [ok |-> TRUE,
     access_token |-> <<"ACCESS-">> \o Uuid4Hex(n),
     refresh_token |-> <<"REFRESH-">> \o Uuid4Hex(n + 1),
     expires_at |-> IsoFormat(t + EXPIRES_IN - EXPIRY_MARGIN)]

\* The mock exchange: a code with the accepted prefix yields two fresh tokens
\* (the n-th and n+1-st uuid4 draws) and an expiry computed from the clock t;
\* any other code yields None.
exchange_code_for_tokens(auth_code, n, t) ==
    IF StartsWith(auth_code, AUTH_CODE_PREFIX)
    THEN [ok |-> TRUE,
          access_token |-> <<"ACCESS-">> \o Uuid4Hex(n),
          refresh_token |-> <<"REFRESH-">> \o Uuid4Hex(n + 1),
          expires_at |-> IsoFormat(t + EXPIRES_IN - EXPIRY_MARGIN)]
    ELSE NoTokens

\* A variant of refresh_access_token that forgets the safety margin.
refresh_access_token_no_margin(refresh_token, n, t) ==
    IF StartsWith(refresh_token, <<"REFRESH-">>)
    THEN [ok |-> TRUE,
          access_token |-> <<"ACCESS-">> \o Uuid4Hex(n),
          refresh_token |-> Empty,
          expires_at |-> IsoFormat(t + EXPIRES_IN)]
    ELSE NoTokens

\* The mock refresh: a refresh token with the accepted prefix yields a fresh
\* access token; any other yields None.
refresh_access_token(refresh_token, n, t) ==
    IF StartsWith(refresh_token, <<"REFRESH-">>)
    THEN [ok |-> TRUE,
          access_token |-> <<"ACCESS-">> \o Uuid4Hex(n),
          refresh_token |-> Empty,
          expires_at |-> IsoFormat(t + EXPIRES_IN - EXPIRY_MARGIN)]
    ELSE NoTokens

\* A variant of EncodeState with the same nonce every time.
EncodeStateFixed(org, user, nonce) ==
    org \o <<"_">> \o user \o <<"_">> \o <<"0">>

\* The state parameter start_oauth_flow builds.
EncodeState(org, user, nonce) == org \o <<"_">> \o user \o <<"_">> \o nonce

\* The split oauth_callback makes of it.
DecodeState(state) == RSplit(state, "_", 2)

\* A variant of HasUser that looks at the org alone.
HasOrgOnly(db, org, user) == org \in DOMAIN db

\* The key (org, user) holds a token dict.
HasUser(db, org, user) == org \in DOMAIN db /\ user \in DOMAIN db[org]

(***************************************************************************)
(* Initial state: both stores empty, every thread idle.                    *)
(***************************************************************************)
Init ==
    /\ USER_TOKEN_DATABASE = EmptyDict
    /\ heap = <<>>
    /\ ORG_KEY_STORE = EmptyDict
    /\ now = 0
    /\ ticks = 0
    /\ uuidCount = 0
    /\ pc = [t \in Threads |-> "idle"]
    /\ req = [t \in Threads |-> NoRequest]
    /\ loc = [t \in Threads |-> NoLocals]
    /\ last = NoResponse
    /\ issued = {}
    /\ stored = {}

\* Thread t answers request rq with response rs and is idle again.
Return(t, rq, rs) ==
    /\ pc' = [pc EXCEPT ![t] = "idle"]
    /\ req' = [req EXCEPT ![t] = NoRequest]
    /\ loc' = [loc EXCEPT ![t] = NoLocals]
    /\ last' = rs

\* Thread t, serving request rq with locals l, moves to step p of its handler.
Goto(t, p, rq, l) ==
    /\ pc' = [pc EXCEPT ![t] = p]
    /\ req' = [req EXCEPT ![t] = rq]
    /\ loc' = [loc EXCEPT ![t] = l]
    /\ UNCHANGED last

(***************************************************************************)
(* POST /api/store-org-key                                                 *)
(***************************************************************************)
store_third_party_key_request(t, cliq_org_id, third_party_key) ==
    /\ pc[t] = "idle"
    /\  LET rq == [op |-> "store", a |-> cliq_org_id, b |-> third_party_key]
        IN  IF cliq_org_id = Empty \/ third_party_key = Empty
            THEN /\ Return(t, rq, Response(400, "Missing organization ID or API key"))
                 /\ UNCHANGED ORG_KEY_STORE
            ELSE IF ~mock_key_validation(third_party_key)
            THEN /\ Return(t, rq,
                     Response(401, "API Key is invalid (Must be 15+ characters)"))
                 /\ UNCHANGED ORG_KEY_STORE
            ELSE /\ ORG_KEY_STORE' =
                       DictSet(ORG_KEY_STORE, cliq_org_id, third_party_key)
                 /\ Return(t, rq, Response(200, "Organization API Key stored successfully"))
    /\ UNCHANGED <<USER_TOKEN_DATABASE, heap, now, ticks, uuidCount, issued, stored>>

store_third_party_key(t) ==
    \E cliq_org_id \in QueryOrgIds \cup {Empty}, third_party_key \in ApiKeys :
        store_third_party_key_request(t, cliq_org_id, third_party_key)

\* Lines 173-178: the body is JSON but no object, and data.get raises.
store_third_party_key_no_object(t) ==
    /\ pc[t] = "idle"
    /\ Return(t, [op |-> "store", a |-> Empty, b |-> Empty],
              Response(400, "Invalid JSON format or missing data"))
    /\ UNCHANGED <<USER_TOKEN_DATABASE, heap, ORG_KEY_STORE, now, ticks,
                   uuidCount, issued, stored>>

(***************************************************************************)
(* GET /oauth/start                                                        *)
(***************************************************************************)
\* The handler on the parameters cliq_org_id and cliq_user_id.
start_oauth_flow_request(t, cliq_org_id, cliq_user_id) ==
    /\ pc[t] = "idle"
    /\  LET rq == [op |-> "start", a |-> cliq_org_id, b |-> cliq_user_id]
        IN  IF cliq_org_id = Empty \/ cliq_user_id = Empty
            THEN /\ Return(t, rq,
                     Response(400, "Missing context parameters (org_id, user_id)"))
                 /\ UNCHANGED <<uuidCount, issued>>
            ELSE /\ uuidCount < MaxUuid
                 /\ LET state == EncodeState(cliq_org_id, cliq_user_id,
                                             Uuid4Hex(uuidCount))
                    IN  /\ Return(t, rq, Response(202, "User authorization required."))
                        /\ issued' = issued \cup
                               {[state |-> state, org |-> cliq_org_id,
                                 user |-> cliq_user_id]}
                 /\ uuidCount' = uuidCount + 1
    /\ UNCHANGED <<USER_TOKEN_DATABASE, heap, ORG_KEY_STORE, now, ticks, stored>>

start_oauth_flow(t) ==
    \E cliq_org_id \in OrgIds \cup {Empty}, cliq_user_id \in UserIds \cup {Empty} :
        start_oauth_flow_request(t, cliq_org_id, cliq_user_id)

(***************************************************************************)
(* GET /oauth/callback                                                     *)
(***************************************************************************)
\* The state values a caller may send: one start_oauth_flow returned, one it
\* never returned (well-formed, with a nonce of the caller's), a malformed
\* one, or none.
ForgedStates == { <<"o", "_", "v", "_", "f">> }
CallbackStates ==
    { i.state : i \in issued } \cup ForgedStates \cup { <<"o", "_", "v">>, Empty }

\* Lines 237-255, on the parameters code and state: the parameters, the
\* split of state, the code exchange.
oauth_callback_request(t, auth_code, state) ==
    /\ pc[t] = "idle"
    /\  LET rq == [op |-> "callback", a |-> auth_code, b |-> state]
        IN  IF auth_code = Empty \/ state = Empty
            THEN /\ Return(t, rq, Response(400, "Missing authorization code or state parameter"))
                 /\ UNCHANGED uuidCount
            ELSE IF Len(DecodeState(state)) # 3
            THEN /\ Return(t, rq, Response(400, "Invalid state parameter format."))
                 /\ UNCHANGED uuidCount
            ELSE LET token_data == exchange_code_for_tokens(auth_code, uuidCount, now)
                 IN  IF ~token_data.ok
                     THEN /\ Return(t, rq,
                                    [Response(401, "Zoho Token exchange failed.")
                                       EXCEPT !.state = state])
                          /\ UNCHANGED uuidCount
                     ELSE /\ uuidCount + 2 <= MaxUuid
                          /\ uuidCount' = uuidCount + 2
                          /\ Goto(t, "cb_check", rq,
                                  [NoLocals EXCEPT
                                     !.org = DecodeState(state)[1],
                                     !.user = DecodeState(state)[2],
                                     !.tokens = token_data])
    /\ UNCHANGED <<USER_TOKEN_DATABASE, heap, ORG_KEY_STORE, now, ticks, issued, stored>>

oauth_callback(t) ==
    \E auth_code \in AuthCodes, state \in CallbackStates :
        oauth_callback_request(t, auth_code, state)

\* Line 258: is there a dict for the org?
callback_check_org(t) ==
    /\ pc[t] = "cb_check"
    /\ IF loc[t].org \notin DOMAIN USER_TOKEN_DATABASE
       THEN Goto(t, "cb_mkorg", req[t], loc[t])
       ELSE Goto(t, "cb_store", req[t], loc[t])
    /\ UNCHANGED <<USER_TOKEN_DATABASE, heap, ORG_KEY_STORE, now, ticks,
                   uuidCount, issued, stored>>

\* Line 259: USER_TOKEN_DATABASE[cliq_org_id] = {}
callback_make_org(t) ==
    /\ pc[t] = "cb_mkorg"
    /\ USER_TOKEN_DATABASE' = DictSet(USER_TOKEN_DATABASE, loc[t].org, EmptyDict)
    /\ Goto(t, "cb_store", req[t], loc[t])
    /\ UNCHANGED <<heap, ORG_KEY_STORE, now, ticks, uuidCount, issued, stored>>

\* A variant of NewUserData that keeps the access token where the refresh
\* token belongs.
NewUserDataNoRefresh(token_data) ==
    [refresh_token |-> token_data.access_token,
     access_token |-> token_data.access_token,
     expires_at |-> token_data.expires_at,
     authorization_status |-> "AUTHORIZED"]

\* The token dict of lines 261-266.
NewUserData(token_data) ==
    [refresh_token |-> token_data.refresh_token,
     access_token |-> token_data.access_token,
     expires_at |-> token_data.expires_at,
     authorization_status |-> "AUTHORIZED"]

\* Lines 261-275: a new token dict is stored under (org, user).
callback_store(t) ==
    /\ pc[t] = "cb_store"
    /\ heap' = Append(heap, NewUserData(loc[t].tokens))
    /\ USER_TOKEN_DATABASE' =
           DictSet(USER_TOKEN_DATABASE, loc[t].org,
                   DictSet(USER_TOKEN_DATABASE[loc[t].org], loc[t].user,
                           Len(heap) + 1))
    /\ Return(t, req[t], [Response(200, "Zoho Authorization successful")
                            EXCEPT !.state = req[t].b])
    /\ stored' = stored \cup {<<loc[t].org, loc[t].user>>}
    /\ UNCHANGED <<ORG_KEY_STORE, now, ticks, uuidCount, issued>>

(***************************************************************************)
(* GET /api/get-user-data, with get_valid_access_token inlined             *)
(***************************************************************************)
\* Lines 294-300: get_valid_access_token returned None.
AccessDenied(refreshes) ==
    [Response(403, "Access denied.") EXCEPT !.refreshes = refreshes]

\* Lines 285-292 and 131-132, on the parameters cliq_org_id and
\* cliq_user_id: the parameters, and is there a token dict?
get_user_personalized_data_request(t, cliq_org_id, cliq_user_id) ==
    /\ pc[t] = "idle"
    /\  LET rq == [op |-> "get", a |-> cliq_org_id, b |-> cliq_user_id]
        IN  IF cliq_org_id = Empty \/ cliq_user_id = Empty
            THEN Return(t, rq, Response(400, "Missing cliq_org_id or cliq_user_id parameter."))
            ELSE IF ~HasUser(USER_TOKEN_DATABASE, cliq_org_id, cliq_user_id)
            THEN Return(t, rq, AccessDenied(0))
            ELSE Goto(t, "g_load", rq,
                      [NoLocals EXCEPT !.org = cliq_org_id, !.user = cliq_user_id])
    /\ UNCHANGED <<USER_TOKEN_DATABASE, heap, ORG_KEY_STORE, now, ticks,
                   uuidCount, issued, stored>>

get_user_personalized_data(t) ==
    \E cliq_org_id \in QueryOrgIds \cup {Empty}, cliq_user_id \in UserIds \cup {Empty} :
        get_user_personalized_data_request(t, cliq_org_id, cliq_user_id)

\* Line 134: user_data = USER_TOKEN_DATABASE[org_id][user_id], a reference;
\* a KeyError when the entry is gone.
get_load_user_data(t) ==
    /\ pc[t] = "g_load"
    /\ IF HasUser(USER_TOKEN_DATABASE, loc[t].org, loc[t].user)
       THEN Goto(t, "g_expiry", req[t],
                 [loc[t] EXCEPT !.user_data =
                      USER_TOKEN_DATABASE[loc[t].org][loc[t].user]])
       ELSE Return(t, req[t], Response(500, "KeyError"))
    /\ UNCHANGED <<USER_TOKEN_DATABASE, heap, ORG_KEY_STORE, now, ticks,
                   uuidCount, issued, stored>>

\* A variant of StillValid with the comparison turned around.
StillValidTurned(expiry_time, t) == expiry_time < t + REFRESH_BUFFER

\* Line 144: the access token expires more than the buffer after time t.
StillValid(expiry_time, t) == expiry_time > t + REFRESH_BUFFER

\* Lines 137-149: the expiry check; the fast path returns the access token
\* held by user_data.
get_check_expiry(t) ==
    /\ pc[t] = "g_expiry"
    /\ LET user_data == heap[loc[t].user_data]
       IN  IF ~IsIsoFormat(user_data.expires_at)
           THEN Return(t, req[t], AccessDenied(0))
           ELSE IF StillValid(FromIsoFormat(user_data.expires_at), now)
           THEN Goto(t, "g_respond", req[t],
                     [loc[t] EXCEPT !.valid_access_token = user_data.access_token])
           ELSE Goto(t, "g_refresh", req[t], loc[t])
    /\ UNCHANGED <<USER_TOKEN_DATABASE, heap, ORG_KEY_STORE, now, ticks,
                   uuidCount, issued, stored>>

\* Lines 152-154 and 161-163: the refresh call to the provider.
get_refresh(t) ==
    /\ pc[t] = "g_refresh"
    /\ LET new_tokens == refresh_access_token(
                             heap[loc[t].user_data].refresh_token, uuidCount, now)
       IN  IF new_tokens.ok
           THEN /\ uuidCount < MaxUuid
                /\ uuidCount' = uuidCount + 1
                /\ Goto(t, "g_write", req[t],
                        [loc[t] EXCEPT !.tokens = new_tokens,
                                       !.refreshes = @ + 1])
           ELSE /\ Return(t, req[t], AccessDenied(loc[t].refreshes + 1))
                /\ UNCHANGED uuidCount
    /\ UNCHANGED <<USER_TOKEN_DATABASE, heap, ORG_KEY_STORE, now, ticks,
                   issued, stored>>

\* A variant of get_write_tokens that also marks the dict as refreshed.
get_write_tokens_marking(t) ==
    /\ pc[t] = "g_write"
    /\ heap' = [heap EXCEPT
                  ![loc[t].user_data].access_token = loc[t].tokens.access_token,
                  ![loc[t].user_data].expires_at = loc[t].tokens.expires_at,
                  ![loc[t].user_data].authorization_status = "REFRESHED"]
    /\ Goto(t, "g_respond", req[t],
            [loc[t] EXCEPT !.valid_access_token = loc[t].tokens.access_token])
    /\ UNCHANGED <<USER_TOKEN_DATABASE, ORG_KEY_STORE, now, ticks, uuidCount,
                   issued, stored>>

\* Lines 156-159: the new access token and expiry are written into the dict
\* user_data refers to.
get_write_tokens(t) ==
    /\ pc[t] = "g_write"
    /\ heap' = [heap EXCEPT
                  ![loc[t].user_data].access_token = loc[t].tokens.access_token,
                  ![loc[t].user_data].expires_at = loc[t].tokens.expires_at]
    /\ Goto(t, "g_respond", req[t],
            [loc[t] EXCEPT !.valid_access_token = loc[t].tokens.access_token])
    /\ UNCHANGED <<USER_TOKEN_DATABASE, ORG_KEY_STORE, now, ticks, uuidCount,
                   issued, stored>>

\* Lines 307-318: the entry is read again for the response; a KeyError when
\* it is gone.
get_respond(t) ==
    /\ pc[t] = "g_respond"
    /\ IF HasUser(USER_TOKEN_DATABASE, loc[t].org, loc[t].user)
       THEN Return(t, req[t],
                   [Response(200, "Success - Token Validated and Refreshed")
                      EXCEPT !.token = loc[t].valid_access_token,
                             !.refreshes = loc[t].refreshes])
       ELSE Return(t, req[t], Response(500, "KeyError"))
    /\ UNCHANGED <<USER_TOKEN_DATABASE, heap, ORG_KEY_STORE, now, ticks,
                   uuidCount, issued, stored>>

(***************************************************************************)
(* The environment.                                                        *)
(***************************************************************************)
\* Time passes.
Tick ==
    /\ ticks < MaxTicks
    /\ \E d \in TickSteps : now' = now + d
    /\ ticks' = ticks + 1
    /\ UNCHANGED <<USER_TOKEN_DATABASE, heap, ORG_KEY_STORE, uuidCount, pc,
                   req, loc, last, issued, stored>>

\* A step of the OAuth flow.
OAuthStep(t) ==
    \/ start_oauth_flow(t)
    \/ oauth_callback(t)
    \/ callback_check_org(t)
    \/ callback_make_org(t)
    \/ callback_store(t)
    \/ get_user_personalized_data(t)
    \/ get_load_user_data(t)
    \/ get_check_expiry(t)
    \/ get_refresh(t)
    \/ get_write_tokens(t)
    \/ get_respond(t)

\* The threaded server of app.run: the OAuth handlers of the threads
\* interleave step by step.  (store_third_party_key reads and writes only
\* ORG_KEY_STORE, which no OAuth handler touches.)
Next ==
    \/ Tick
    \/ \E t \in Threads : OAuthStep(t)

Spec == Init /\ [][Next]_vars

\* No thread other than t is serving a request.
OthersIdle(t) == \A u \in Threads \ {t} : pc[u] = "idle"

\* The same handlers with the requests served one at a time, each to its
\* response before the next is taken up.
NextSerial ==
    \/ Tick
    \/ \E t \in Threads :
        \/ OthersIdle(t) /\ start_oauth_flow(t)
        \/ OthersIdle(t) /\ oauth_callback(t)
        \/ OthersIdle(t) /\ callback_check_org(t)
        \/ OthersIdle(t) /\ callback_make_org(t)
        \/ OthersIdle(t) /\ callback_store(t)
        \/ OthersIdle(t) /\ get_user_personalized_data(t)
        \/ OthersIdle(t) /\ get_load_user_data(t)
        \/ OthersIdle(t) /\ get_check_expiry(t)
        \/ OthersIdle(t) /\ get_refresh(t)
        \/ OthersIdle(t) /\ get_write_tokens(t)
        \/ OthersIdle(t) /\ get_respond(t)

SpecSerial == Init /\ [][NextSerial]_vars

(***************************************************************************)
(* Properties.                                                             *)
(***************************************************************************)
IssuedStates == { i.state : i \in issued }

InvalidState == Response(400, "Invalid state parameter format.")
ExchangeFailed(state) ==
    [Response(401, "Zoho Token exchange failed.") EXCEPT !.state = state]

\* The token dict stored under (org, user).
Credential(db, h, org, user) == h[db[org][user]]

\* db2 holds the keys and references of db1, but for the key (org, user).
SameButFor(db1, db2, org, user) ==
    \A o \in DOMAIN db1 \cup DOMAIN db2 :
        \A u \in (IF o \in DOMAIN db1 THEN DOMAIN db1[o] ELSE {})
                     \cup (IF o \in DOMAIN db2 THEN DOMAIN db2[o] ELSE {}) :
            <<o, u>> # <<org, user>> =>
                /\ HasUser(db1, o, u)
                /\ HasUser(db2, o, u)
                /\ db1[o][u] = db2[o][u]

\* C1: when the callback is served with an accepted code and a state that
\* start_oauth_flow returned for (org, user), the token dict made from the
\* exchanged tokens, with status AUTHORIZED, is stored under exactly
\* (org, user); and a get-user-data request that is answered with a token
\* is answered with the access token stored under its key.
C1_AuthorizationStoresUnderStartedKey ==
    [][\A t \in Threads :
        /\ callback_store(t) =>
              \A i \in issued :
                  i.state = req[t].b =>
                      /\ HasUser(USER_TOKEN_DATABASE', i.org, i.user)
                      /\ Credential(USER_TOKEN_DATABASE', heap', i.org, i.user)
                             = NewUserData(loc[t].tokens)
                      /\ SameButFor(USER_TOKEN_DATABASE, USER_TOKEN_DATABASE',
                                    i.org, i.user)
        /\ (get_respond(t) /\ last'.status = 200) =>
              last'.token = Credential(USER_TOKEN_DATABASE, heap,
                                       loc[t].org, loc[t].user).access_token
      ]_vars

\* C2: a callback request that repeats the state of the callback request
\* answered just before it (with success or with a failed exchange) is
\* answered with the invalid-state error and writes no token dict.
C2_ReplayedStateIsRejected ==
    [][\A t \in Threads :
        \A auth_code \in AuthCodes \ {Empty} :
            (last.state # Empty
                /\ oauth_callback_request(t, auth_code, last.state)) =>
                /\ last' = InvalidState
                /\ pc'[t] = "idle"
                /\ UNCHANGED <<USER_TOKEN_DATABASE, heap>>
      ]_vars

\* C3: a callback request with a well-formed state that start_oauth_flow
\* never returned is answered with the invalid-state error and writes no
\* token dict, whatever its code.
C3_UnknownStateIsRejected ==
    [][\A t \in Threads :
        /\ \A auth_code \in AuthCodes \ {Empty},
              state \in CallbackStates \ (IssuedStates \cup {Empty}) :
              (Len(DecodeState(state)) = 3
                  /\ oauth_callback_request(t, auth_code, state)) =>
                  /\ last' = InvalidState
                  /\ pc'[t] = "idle"
                  /\ UNCHANGED <<USER_TOKEN_DATABASE, heap>>
        /\ callback_store(t) => req[t].b \in IssuedStates
      ]_vars

\* C4: the split of every state start_oauth_flow has built from (org, user,
\* nonce) yields that org and that user back.
C4_StateRoundTrips ==
    \A i \in issued :
        /\ Len(DecodeState(i.state)) = 3
        /\ DecodeState(i.state)[1] = i.org
        /\ DecodeState(i.state)[2] = i.user

\* C5: when the expiry check of a get-user-data request finds the stored
\* expires_at more than 60 seconds after the clock, the request makes no
\* refresh call, changes neither store, and is answered with the stored
\* access token.  (With the requests served one at a time: what a request
\* interleaved with it does to the key between the check and the answer is
\* outside this property.)
C5_FastPathReadsOnly ==
    [][\A t \in Threads :
        /\ (get_check_expiry(t)
              /\ FromIsoFormat(heap[loc[t].user_data].expires_at) - now
                     > REFRESH_BUFFER) =>
              /\ pc'[t] = "g_respond"
              /\ loc'[t].refreshes = 0
              /\ loc'[t].valid_access_token =
                     Credential(USER_TOKEN_DATABASE, heap,
                                loc[t].org, loc[t].user).access_token
              /\ UNCHANGED <<USER_TOKEN_DATABASE, heap, ORG_KEY_STORE, uuidCount>>
        /\ (get_respond(t) /\ loc[t].refreshes = 0) =>
              /\ last'.status = 200
              /\ last'.refreshes = 0
              /\ last'.token =
                     Credential(USER_TOKEN_DATABASE, heap,
                                loc[t].org, loc[t].user).access_token
              /\ UNCHANGED <<USER_TOKEN_DATABASE, heap, ORG_KEY_STORE, uuidCount>>
      ]_vars

\* A get-user-data request is about to be answered on the fast path, one
\* second before its token enters the refresh buffer.
C5_Witness ==
    \E t \in Threads :
        /\ pc[t] = "g_respond"
        /\ loc[t].refreshes = 0
        /\ loc[t].valid_access_token # Empty
        /\ FromIsoFormat(heap[loc[t].user_data].expires_at) - now
               = REFRESH_BUFFER + 1

\* C6: never do two requests for the same key each hold the result of a
\* refresh call of their own that is still to be written: the refresh is
\* called once for a key, and its one result is what every caller gets.
C6_OneRefreshPerKey ==
    \A t1, t2 \in Threads :
        (t1 # t2 /\ pc[t1] = "g_write" /\ pc[t2] = "g_write") =>
            <<loc[t1].org, loc[t1].user>> # <<loc[t2].org, loc[t2].user>>

\* C9: a callback request with a well-formed state and a code the provider
\* rejects (one without the accepted prefix) is answered with the
\* exchange-failed error at once, and both the database and every token dict
\* are as before.
C9_FailedExchangeWritesNothing ==
    [][\A t \in Threads :
        \A auth_code \in AuthCodes \ {Empty}, state \in CallbackStates \ {Empty} :
            (/\ ~StartsWith(auth_code, AUTH_CODE_PREFIX)
             /\ Len(DecodeState(state)) = 3
             /\ oauth_callback_request(t, auth_code, state)) =>
                /\ last' = ExchangeFailed(state)
                /\ pc'[t] = "idle"
                /\ UNCHANGED <<USER_TOKEN_DATABASE, heap, ORG_KEY_STORE, uuidCount>>
      ]_vars

\* A callback request has just failed its exchange on a state under whose
\* key a token dict is stored.
C9_Witness ==
    /\ last = ExchangeFailed(last.state)
    /\ Len(DecodeState(last.state)) = 3
    /\ HasUser(USER_TOKEN_DATABASE, DecodeState(last.state)[1],
               DecodeState(last.state)[2])

\* C10: a get-user-data request for a key under which no token dict is
\* stored is answered with access-denied at once, without a refresh call,
\* and adds no entry to the database, whatever the other threads are doing.
C10_MissingCredentialDenied ==
    [][\A t \in Threads :
        \A org \in QueryOrgIds, user \in UserIds :
            (/\ get_user_personalized_data_request(t, org, user)
             /\ ~(/\ org \in DOMAIN USER_TOKEN_DATABASE
                  /\ user \in DOMAIN USER_TOKEN_DATABASE[org])) =>
                /\ last' = AccessDenied(0)
                /\ pc'[t] = "idle"
                /\ UNCHANGED <<USER_TOKEN_DATABASE, heap, ORG_KEY_STORE, uuidCount>>
      ]_vars

\* A get-user-data request has just been denied without a refresh call, in
\* a database that holds a token dict under another key.
C10_Witness ==
    /\ last = AccessDenied(0)
    /\ \E org \in DOMAIN USER_TOKEN_DATABASE :
          DOMAIN USER_TOKEN_DATABASE[org] # {}
    /\ \E org \in QueryOrgIds, user \in UserIds :
          ~HasUser(USER_TOKEN_DATABASE, org, user)

\* The keys under which a token dict is stored.
StoredKeys(db) ==
    UNION { { <<org, user>> : user \in DOMAIN db[org] } : org \in DOMAIN db }

\* The access token of token dict d is one the code still hands out at time
\* t (line 144): it expires more than the buffer after t, and so has not
\* expired.
NotExpired(d, t) ==
    IsIsoFormat(d.expires_at) /\ StillValid(FromIsoFormat(d.expires_at), t)

\* The provider accepts the refresh token of token dict d.
RefreshUsable(d) == refresh_access_token(d.refresh_token, uuidCount, now).ok

\* C11: in every reachable state, every stored token dict with status
\* AUTHORIZED has an access token that has not expired (and that the code
\* still hands out) or a refresh token the provider accepts.
C11_AuthorizedIsUsable ==
    \A k \in StoredKeys(USER_TOKEN_DATABASE) :
        LET d == Credential(USER_TOKEN_DATABASE, heap, k[1], k[2])
        IN  d.authorization_status = "AUTHORIZED" =>
                NotExpired(d, now) \/ RefreshUsable(d)

\* A token dict with status AUTHORIZED is stored whose access token the code
\* no longer hands out: only its refresh token keeps it usable.
C11_Witness ==
    \E k \in StoredKeys(USER_TOKEN_DATABASE) :
        LET d == Credential(USER_TOKEN_DATABASE, heap, k[1], k[2])
        IN  /\ d.authorization_status = "AUTHORIZED"
            /\ ~NotExpired(d, now)
            /\ RefreshUsable(d)

\* The runs in which every authorization is started before the clock first
\* advances and every callback is served after it, one request at a time:
\* in them every state in issued was built at clock 0, and now is its age.
NextTtl ==
    \/ Tick
    \/ \E t \in Threads :
        \/ ticks = 0 /\ OthersIdle(t) /\ start_oauth_flow(t)
        \/ ticks > 0 /\ OthersIdle(t) /\ oauth_callback(t)
        \/ callback_check_org(t)
        \/ callback_make_org(t)
        \/ callback_store(t)

SpecTtl == Init /\ [][NextTtl]_vars

\* The time to live of a pending authorization (ten minutes), in seconds.
PENDING_TTL == 10 * 60

\* C12: a callback request with a state that start_oauth_flow built longer
\* ago than the time to live of a pending authorization is answered with the
\* invalid-state error and never gets to store a token dict.  (Stated for
\* SpecTtl, where the age of every issued state is the clock.)
C12_ExpiredStateIsRejected ==
    [][\A t \in Threads :
        \A auth_code \in AuthCodes \ {Empty}, state \in IssuedStates :
            (now > PENDING_TTL
                /\ oauth_callback_request(t, auth_code, state)) =>
                /\ last' = InvalidState
                /\ pc'[t] = "idle"
                /\ UNCHANGED <<USER_TOKEN_DATABASE, heap>>
      ]_vars

\* The place of the nonce of an issued state in the order of the uuid4 draws.
NonceIndex(state) ==
    CHOOSE n \in 1..Len(HexDigits) : HexDigits[n] = state[Len(state)]

NextOrgKey ==
    \E t \in Threads :
        \/ OthersIdle(t) /\ store_third_party_key(t)
        \/ OthersIdle(t) /\ store_third_party_key_no_object(t)
        \/ OthersIdle(t) /\ start_oauth_flow(t)
        \/ OthersIdle(t) /\ oauth_callback(t)
        \/ callback_check_org(t)
        \/ callback_make_org(t)
        \/ callback_store(t)

SpecOrgKey == Init /\ [][NextOrgKey]_vars

InvalidKey == Response(401, "API Key is invalid (Must be 15+ characters)")
KeyStored == Response(200, "Organization API Key stored successfully")

\* What the request store_third_party_key_request(t, org, key) must do:
\* reject a key of fewer than 15 characters and leave ORG_KEY_STORE as it
\* is; set the key of org, and of no other org, to a key that passes; and
\* change no token dict.
StoreOrgKeyContract(org, key) ==
    /\ IF Len(key) < MIN_KEY_LEN
       THEN /\ last' = InvalidKey
            /\ UNCHANGED ORG_KEY_STORE
       ELSE /\ last' = KeyStored
            /\ DOMAIN ORG_KEY_STORE' = DOMAIN ORG_KEY_STORE \cup {org}
            /\ ORG_KEY_STORE'[org] = key
            /\ \A o \in DOMAIN ORG_KEY_STORE \ {org} :
                  ORG_KEY_STORE'[o] = ORG_KEY_STORE[o]
    /\ UNCHANGED <<USER_TOKEN_DATABASE, heap>>

NextAll ==
    \/ NextSerial
    \/ \E t \in Threads :
          /\ OthersIdle(t)
          /\ \E cliq_org_id \in QueryOrgIds, third_party_key \in {ShortKey, LongKey} :
                store_third_party_key_request(t, cliq_org_id, third_party_key)

SpecAll == Init /\ [][NextAll]_vars

\* C15: served alone, a get-user-data request whose stored access token is
\* within the buffer of expiry and whose refresh call succeeds writes the new
\* access token and the new expiry into the token dict of its key and
\* nothing else: the dict's status and refresh token, every other token
\* dict, USER_TOKEN_DATABASE and ORG_KEY_STORE stay as they are; and its
\* answer carries the new access token, which is the stored one.
C15_RefreshReplacesTokenAndExpiry ==
    [][\A t \in Threads :
        /\ get_write_tokens(t) =>
              LET org == loc[t].org
                  user == loc[t].user
                  old == Credential(USER_TOKEN_DATABASE, heap, org, user)
                  new == Credential(USER_TOKEN_DATABASE', heap', org, user)
              IN  /\ ~StillValid(FromIsoFormat(old.expires_at), now)
                  /\ new.access_token = loc[t].tokens.access_token
                  /\ new.access_token # old.access_token
                  /\ new.expires_at = loc[t].tokens.expires_at
                  /\ new.authorization_status = old.authorization_status
                  /\ new.refresh_token = old.refresh_token
                  /\ DOMAIN new = DOMAIN old
                  /\ \A a \in DOMAIN heap' \ {USER_TOKEN_DATABASE[org][user]} :
                        a \in DOMAIN heap /\ heap'[a] = heap[a]
                  /\ UNCHANGED <<USER_TOKEN_DATABASE, ORG_KEY_STORE>>
                  /\ loc'[t].valid_access_token = new.access_token
        /\ (get_respond(t) /\ loc[t].refreshes > 0) =>
              /\ last'.status = 200
              /\ last'.token = loc[t].tokens.access_token
              /\ last'.token =
                    Credential(USER_TOKEN_DATABASE', heap',
                               loc[t].org, loc[t].user).access_token
              /\ UNCHANGED <<USER_TOKEN_DATABASE, heap, ORG_KEY_STORE>>
      ]_vars

\* A request has just been answered with the access token of its one
\* refresh while an org key is stored.
C15_Witness ==
    /\ last.status = 200
    /\ last.refreshes = 1
    /\ last.token # Empty
    /\ ORG_KEY_STORE # EmptyDict
    /\ \E k \in StoredKeys(USER_TOKEN_DATABASE) :
          /\ Credential(USER_TOKEN_DATABASE, heap, k[1], k[2]).access_token
                = last.token
          /\ Credential(USER_TOKEN_DATABASE, heap, k[1], k[2])
                .authorization_status = "AUTHORIZED"

\* C16: the expiry that goes into a token dict is the clock read when the
\* provider's answer is converted (lines 81 and 118) plus expires_in minus
\* the 300-second margin, so it is later than that clock reading; and the
\* writes (lines 261-266 and 156-157) store that expiry as it is.
C16_ExpiryIsClockPlusLifetimeLessMargin ==
    [][\A t \in Threads :
        /\ (pc[t] = "idle" /\ pc'[t] = "cb_check") =>
              /\ loc'[t].tokens.expires_at
                    = IsoFormat(now + EXPIRES_IN - EXPIRY_MARGIN)
              /\ FromIsoFormat(loc'[t].tokens.expires_at) > now
        /\ (pc[t] = "g_refresh" /\ pc'[t] = "g_write") =>
              /\ loc'[t].tokens.expires_at
                    = IsoFormat(now + EXPIRES_IN - EXPIRY_MARGIN)
              /\ FromIsoFormat(loc'[t].tokens.expires_at) > now
        /\ callback_store(t) =>
              /\ Len(heap') = Len(heap) + 1
              /\ heap'[Len(heap')].expires_at = loc[t].tokens.expires_at
              /\ USER_TOKEN_DATABASE'[loc[t].org][loc[t].user] = Len(heap')
        /\ get_write_tokens(t) =>
              heap'[loc[t].user_data].expires_at = loc[t].tokens.expires_at
      ]_vars

\* After the clock has advanced, a token dict holds the expiry computed from
\* the present clock: it was written at this time.
C16_Witness ==
    /\ now > 0
    /\ \E k \in StoredKeys(USER_TOKEN_DATABASE) :
          Credential(USER_TOKEN_DATABASE, heap, k[1], k[2]).expires_at
              = IsoFormat(now + EXPIRES_IN - EXPIRY_MARGIN)
    /\ \A t \in Threads : pc[t] = "idle"

\* Two users of one tenant.
TenantUsers == { <<"v">>, <<"w">> }

\* The states start_oauth_flow builds for them, with the nonce of some draw.
TenantStates == { EncodeState(<<"o">>, user, Uuid4Hex(0)) : user \in TenantUsers }

\* The threaded server with the authorizations of the two users: the
\* callbacks interleave step by step.
NextTenant ==
    \E t \in Threads :
        \/ \E cliq_user_id \in TenantUsers :
              start_oauth_flow_request(t, <<"o">>, cliq_user_id)
        \/ \E auth_code \in AuthCodes, state \in IssuedStates \cup TenantStates :
              oauth_callback_request(t, auth_code, state)
        \/ callback_check_org(t)
        \/ callback_make_org(t)
        \/ callback_store(t)

SpecTenant == Init /\ [][NextTenant]_vars

\* C17: when no callback is under way, every key for which a callback has
\* stored a token dict still holds one: of two interleaved callbacks for two
\* users of one tenant, neither write is lost.
C17_BothCredentialsPresent ==
    (\A t \in Threads : pc[t] = "idle") =>
        \A k \in stored : HasUser(USER_TOKEN_DATABASE, k[1], k[2])

\* C18: the set of keys that hold a token dict changes only in the step in
\* which a callback stores one (the callback that then answers 200), which
\* adds the key its state decodes to; and no step removes a key.
C18_KeysOnlyGrowByCallback ==
    [][/\ StoredKeys(USER_TOKEN_DATABASE) \subseteq StoredKeys(USER_TOKEN_DATABASE')
       /\ StoredKeys(USER_TOKEN_DATABASE') # StoredKeys(USER_TOKEN_DATABASE) =>
              \E t \in Threads :
                  /\ callback_store(t)
                  /\ last'.status = 200
                  /\ StoredKeys(USER_TOKEN_DATABASE') =
                        StoredKeys(USER_TOKEN_DATABASE)
                            \cup {<<loc[t].org, loc[t].user>>}
      ]_vars

\* C19: at the step in which get_valid_access_token returns a token (line
\* 146 or line 159), also when callbacks and other get-user-data requests
\* run in between its steps, the token is the access token of the token dict
\* stored under the request's key, and that dict's expiry is more than the
\* buffer after the clock.
C19_ReturnedTokenIsStoredAndValid ==
    [][\A t \in Threads :
        (pc[t] \in {"g_expiry", "g_write"} /\ pc'[t] = "g_respond") =>
            /\ HasUser(USER_TOKEN_DATABASE', loc'[t].org, loc'[t].user)
            /\ LET d == Credential(USER_TOKEN_DATABASE', heap',
                                   loc'[t].org, loc'[t].user)
               IN  /\ loc'[t].valid_access_token = d.access_token
                   /\ StillValid(FromIsoFormat(d.expires_at), now')
      ]_vars

\* Every token dict stored after the step, other than the one of key
\* (org, user), was stored before it under the same key with the same
\* content.
OtherCredentialsKept(org, user) ==
    \A k \in StoredKeys(USER_TOKEN_DATABASE') \ {<<org, user>>} :
        /\ k \in StoredKeys(USER_TOKEN_DATABASE)
        /\ Credential(USER_TOKEN_DATABASE', heap', k[1], k[2])
             = Credential(USER_TOKEN_DATABASE, heap, k[1], k[2])

\* C20: served alone, a get-user-data request changes no token dict but the
\* one of the key in its parameters, and a callback whose state was issued
\* by a start changes no token dict but the one of the key that start was
\* called for.
C20_OtherKeysUntouched ==
    [][\A t \in Threads :
        /\ (req[t].op = "get" /\ pc[t] # pc'[t]) =>
              OtherCredentialsKept(req[t].a, req[t].b)
        /\ (req[t].op = "callback" /\ pc[t] # pc'[t]) =>
              \A i \in issued :
                  i.state = req[t].b => OtherCredentialsKept(i.org, i.user)
      ]_vars

====
